---- MODULE Spec2Model ----
(***************************************************************************)
(* Finite random variables of python-randvar (src/randvar): the            *)
(* RandomVariable class with its sampling index, rand_apply / randomable,  *)
(* and the statistics functions built on them.                             *)
(*                                                                         *)
(* A Python dict is an insertion-ordered mapping: it is modelled as a      *)
(* sequence of <<key, weight>> pairs with pairwise distinct keys.  Values  *)
(* and weights are integers (Python ints, exact arithmetic).               *)
(***************************************************************************)
EXTENDS Integers, Sequences, FiniteSets, TLC

VARIABLES rv, last

vars == <<rv, last>>

(***************************************************************************)
(* Bounds of the model.                                                    *)
(***************************************************************************)
MaxVal == 2

MaxWeight == 2

MaxLen == 2

MaxN == 4

Grid == 2

MaxDen == 3

MaxSample == 2

MaxPctN == 22

MaxArgs == 2

Values == 0..MaxVal

Weights == (0 - 1)..MaxWeight

(***************************************************************************)
(* Input mappings: every dict with at most MaxLen entries.                 *)
(***************************************************************************)
DistinctKeys(d) == \A i, j \in 1..Len(d) : i # j => d[i][1] # d[j][1]

DictsOfLen(n) == {d \in [1..n -> Values \X Weights] : DistinctKeys(d)}

Dicts == UNION {DictsOfLen(n) : n \in 0..MaxLen}

RECURSIVE SumWeightsSkipFirst(_)
SumWeightsSkipFirst(d) ==
    IF Len(d) <= 1 THEN 0 ELSE d[2][2] + SumWeightsSkipFirst(<<d[1]>> \o SubSeq(d, 3, Len(d)))

RECURSIVE SumWeights(_)
SumWeights(d) == IF Len(d) = 0 THEN 0 ELSE d[1][2] + SumWeights(Tail(d))

Keys(d) == {d[i][1] : i \in 1..Len(d)}

HasKey(d, k) == \E i \in 1..Len(d) : d[i][1] = k

Lookup(d, k) == d[CHOOSE i \in 1..Len(d) : d[i][1] = k][2]

(***************************************************************************)
(* RandomVariable.__init__                                                 *)
(***************************************************************************)
NoObj == [dist |-> <<>>, weight_sum |-> 0, search |-> <<>>]

AssertWeightsOff(d) == TRUE

AssertWeights(d) == \A i \in 1..Len(d) : 0 <= d[i][2]

PruneZeros(d) == SelectSeq(d, LAMBDA e : e[2] # 0)

RECURSIVE BuildSearch(_, _, _)
BuildSearch(d, i, cum) ==
    IF i > Len(d) THEN <<>>
    ELSE <<[value |-> d[i][1], lower |-> cum, upper |-> cum + d[i][2]]>>
         \o BuildSearch(d, i + 1, cum + d[i][2])

RandomVariable(d) ==
    IF ~AssertWeights(d) THEN [exc |-> "AssertionError", obj |-> NoObj]
    ELSE IF SumWeights(d) = 0
         THEN [exc |-> "ZeroDistributionError", obj |-> NoObj]
         ELSE [exc |-> "none",
               obj |-> [dist |-> PruneZeros(d),
                        weight_sum |-> SumWeights(d),
                        search |-> BuildSearch(d, 1, 0)]]

\* distributions.const
const(v) == RandomVariable(<< <<v, 1>> >>)

(***************************************************************************)
(* distributions.uniform over range(lo, lo + n)                            *)
(***************************************************************************)
UniformDict(lo, n) == [i \in 1..n |-> <<lo + i - 1, 1>>]

uniform(lo, n) == RandomVariable(UniformDict(lo, n))

(***************************************************************************)
(* Queries of RandomVariable                                               *)
(***************************************************************************)
len(obj) == Len(obj.dist)

contains(obj, v) == HasKey(obj.dist, v)

\* __getitem__: the probability as the pair <<numerator, denominator>>
getitem(obj, v) ==
    IF HasKey(obj.dist, v) THEN <<Lookup(obj.dist, v), obj.weight_sum>> ELSE <<0, 1>>

iter(obj) == [i \in 1..Len(obj.dist) |-> obj.dist[i][1]]

probs(obj) == [i \in 1..Len(obj.dist) |-> <<obj.dist[i][2], obj.weight_sum>>]

(***************************************************************************)
(* RandomVariable.choice: the draw x = random() * weight_sum is given as   *)
(* x = xg / Grid.  The while loop runs with a budget of iterations, so     *)
(* that a search that does not stop is an outcome of the model.            *)
(***************************************************************************)
RECURSIVE ChoiceLoopClosedUpper(_, _, _, _, _)
ChoiceLoopClosedUpper(nodes, xg, bot, top, fuel) ==
    LET ind == (bot + top) \div 2 IN
    IF ind >= Len(nodes) THEN [exc |-> "IndexError", value |-> 0]
    ELSE LET item == nodes[ind + 1] IN
         IF xg < Grid * item.lower \/ xg > Grid * item.upper
         THEN IF fuel = 0 THEN [exc |-> "NonTermination", value |-> 0]
              ELSE IF xg < Grid * item.lower
                   THEN ChoiceLoopClosedUpper(nodes, xg, bot, ind, fuel - 1)
                   ELSE ChoiceLoopClosedUpper(nodes, xg, ind + 1, top, fuel - 1)
         ELSE [exc |-> "none", value |-> item.value]

RECURSIVE ChoiceLoop(_, _, _, _, _)
ChoiceLoop(nodes, xg, bot, top, fuel) ==
    LET ind == (bot + top) \div 2 IN
    IF ind >= Len(nodes) THEN [exc |-> "IndexError", value |-> 0]
    ELSE LET item == nodes[ind + 1] IN
         IF xg < Grid * item.lower \/ xg >= Grid * item.upper
         THEN IF fuel = 0 THEN [exc |-> "NonTermination", value |-> 0]
              ELSE IF xg < Grid * item.lower
                   THEN ChoiceLoop(nodes, xg, bot, ind, fuel - 1)
                   ELSE ChoiceLoop(nodes, xg, ind + 1, top, fuel - 1)
         ELSE [exc |-> "none", value |-> item.value]

choice(obj, xg) == ChoiceLoop(obj.search, xg, 0, Len(obj.search), Len(obj.search) + 1)

Draws(obj) == 0..(Grid * obj.weight_sum - 1)

sampleReversed(obj, xs) ==
    LET rs == [i \in 1..Len(xs) |-> choice(obj, xs[Len(xs) + 1 - i])]
        bad == {i \in 1..Len(xs) : rs[i].exc # "none"}
    IN IF bad = {} THEN [exc |-> "none", value |-> [i \in 1..Len(xs) |-> rs[i].value]]
       ELSE [exc |-> rs[CHOOSE i \in bad : \A j \in bad : i <= j].exc, value |-> <<>>]

\* RandomVariable.sample: one call of choice per draw, in order
sample(obj, xs) ==
    LET rs == [i \in 1..Len(xs) |-> choice(obj, xs[i])]
        bad == {i \in 1..Len(xs) : rs[i].exc # "none"}
    IN IF bad = {} THEN [exc |-> "none", value |-> [i \in 1..Len(xs) |-> rs[i].value]]
       ELSE [exc |-> rs[CHOOSE i \in bad : \A j \in bad : i <= j].exc, value |-> <<>>]

\* the draws used for samples: the lowest draw of every interval
SampleDraws(obj) ==
    {Grid * obj.search[i].lower : i \in {j \in 1..Len(obj.search) :
                                           obj.search[j].lower < obj.search[j].upper}}

(***************************************************************************)
(* Python floats (IEEE 754 binary64, round to nearest, ties to even) as    *)
(* far as the statistics need them: the quotient of two ints, the product  *)
(* of a float and an int, the product and the difference of two floats.    *)
(* A float is zero or sig * 2^e, with sig a string of Prec bits (most      *)
(* significant first, leading bit 1).                                      *)
(***************************************************************************)
Prec == 53

FloatZero == [zero |-> TRUE, sig |-> <<>>, e |-> 0]

\* 2^j modulo d
RECURSIVE Pow2Mod(_, _)
Pow2Mod(j, d) ==
    IF j = 0 THEN 1 % d
    ELSE LET h == Pow2Mod(j \div 2, d)
         IN (h * h * (IF j % 2 = 1 THEN 2 ELSE 1)) % d

\* the first k bits of the binary expansion of n / d (0 < n < d), and the
\* remainder n * 2^k modulo d left after them
DivBits(n, d, k) ==
    [bits |-> [j \in 1..k |-> (2 * ((n * Pow2Mod(j - 1, d)) % d)) \div d],
     rem |-> (n * Pow2Mod(k, d)) % d]

RECURSIVE LeadShift(_, _)
LeadShift(n, d) == IF 2 * n >= d THEN 1 ELSE 1 + LeadShift(2 * n, d)

AllOnes(bits) == \A i \in 1..Len(bits) : bits[i] = 1

\* bits + 1, for a bit string that is not all ones
IncBits(bits) ==
    LET p == CHOOSE i \in 1..Len(bits) :
                 bits[i] = 0 /\ \A j \in (i + 1)..Len(bits) : bits[j] = 1
    IN [i \in 1..Len(bits) |-> IF i < p THEN bits[i] ELSE IF i = p THEN 1 ELSE 0]

\* round the bit string to its length, given whether the dropped part is
\* above (1), equal to (0) or below (-1) one half of the last place
RoundEven(bits, e, half) ==
    IF half > 0 \/ (half = 0 /\ bits[Len(bits)] = 1)
    THEN IF AllOnes(bits)
         THEN [zero |-> FALSE, sig |-> [i \in 1..Len(bits) |-> IF i = 1 THEN 1 ELSE 0], e |-> e + 1]
         ELSE [zero |-> FALSE, sig |-> IncBits(bits), e |-> e]
    ELSE [zero |-> FALSE, sig |-> bits, e |-> e]

Sign(x) == IF x > 0 THEN 1 ELSE IF x < 0 THEN 0 - 1 ELSE 0

\* n / d for ints 0 <= n <= d, 0 < d
FloatDiv(n, d) ==
    IF n = 0 THEN FloatZero
    ELSE IF n = d
         THEN [zero |-> FALSE, sig |-> [i \in 1..Prec |-> IF i = 1 THEN 1 ELSE 0], e |-> 1 - Prec]
         ELSE LET s == LeadShift(n, d)
                  q == DivBits(n, d, s + Prec - 1)
              IN RoundEven(SubSeq(q.bits, s, s + Prec - 1), 1 - s - Prec,
                           Sign(2 * q.rem - d))

RECURSIVE BitsToInt(_)
BitsToInt(bits) ==
    IF Len(bits) = 0 THEN 0
    ELSE 2 * BitsToInt(SubSeq(bits, 1, Len(bits) - 1)) + bits[Len(bits)]

\* a bit string as limbs of 8 bits, least significant limb first
Limbs(bits) ==
    LET n == (Len(bits) + 7) \div 8
        padded == [i \in 1..(8 * n - Len(bits)) |-> 0] \o bits
    IN [j \in 1..n |-> BitsToInt(SubSeq(padded, 8 * (n - j) + 1, 8 * (n - j) + 8))]

\* limbs * k, least significant limb first
RECURSIVE MulLimbs(_, _, _)
MulLimbs(limbs, k, carry) ==
    IF Len(limbs) = 0
    THEN IF carry = 0 THEN <<>> ELSE <<carry % 256>> \o MulLimbs(limbs, k, carry \div 256)
    ELSE LET digit == limbs[1] * k + carry
         IN <<digit % 256>> \o MulLimbs(Tail(limbs), k, digit \div 256)

\* the bit string of limbs, without leading zeros
LimbBits(limbs) ==
    LET pow == <<1, 2, 4, 8, 16, 32, 64, 128>>
        all == [i \in 1..(8 * Len(limbs)) |->
                   LET q == 8 * Len(limbs) - i
                   IN (limbs[(q \div 8) + 1] \div pow[(q % 8) + 1]) % 2]
        first == CHOOSE i \in 1..Len(all) : all[i] = 1 /\ \A j \in 1..(i - 1) : all[j] = 0
    IN SubSeq(all, first, Len(all))

\* f * k for a float f and an int k >= 1
FloatMulInt(f, k) ==
    IF f.zero THEN FloatZero
    ELSE LET prod == LimbBits(MulLimbs(Limbs(f.sig), k, 0))
             extra == Len(prod) - Prec
             dropped == SubSeq(prod, Prec + 1, Len(prod))
             rest == \E i \in 2..extra : dropped[i] = 1
         IN IF extra = 0 THEN [zero |-> FALSE, sig |-> prod, e |-> f.e]
            ELSE RoundEven(SubSeq(prod, 1, Prec), f.e + extra,
                           IF dropped[1] = 1 THEN (IF rest THEN 1 ELSE 0) ELSE 0 - 1)

\* the integer part of a float f >= 0 (below 2^31)
FloatFloor(f) ==
    IF f.zero \/ Prec + f.e <= 0 THEN 0
    ELSE BitsToInt(SubSeq(f.sig, 1, Prec + f.e))

\* the bit string of an int n >= 1 (below 2^31), without leading zeros
IntBits(n) ==
    LET width == CHOOSE l \in 1..31 : 2 ^ (l - 1) <= n /\ (l = 31 \/ n < 2 ^ l)
    IN [i \in 1..width |-> (n \div 2 ^ (width - i)) % 2]

Zeros(k) == [i \in 1..k |-> 0]

\* n / d for ints n >= 0, d > 0: the quotient rounded once
FloatQuot(n, d) ==
    IF n <= d THEN FloatDiv(n, d)
    ELSE IF n % d = 0
         THEN [zero |-> FALSE,
               sig |-> IntBits(n \div d) \o Zeros(Prec - Len(IntBits(n \div d))),
               e |-> Len(IntBits(n \div d)) - Prec]
         ELSE RoundEven(IntBits(n \div d)
                            \o DivBits(n % d, d, Prec - Len(IntBits(n \div d))).bits,
                        Len(IntBits(n \div d)) - Prec,
                        Sign(2 * DivBits(n % d, d, Prec - Len(IntBits(n \div d))).rem - d))

\* the exact value bits * 2^e (bits with leading bit 1) as a float
RoundBits(bits, e) ==
    IF Len(bits) <= Prec
    THEN [zero |-> FALSE, sig |-> bits \o Zeros(Prec - Len(bits)), e |-> e - (Prec - Len(bits))]
    ELSE RoundEven(SubSeq(bits, 1, Prec), e + Len(bits) - Prec,
                   IF bits[Prec + 1] = 0 THEN 0 - 1
                   ELSE IF \E i \in (Prec + 2)..Len(bits) : bits[i] = 1 THEN 1 ELSE 0)

\* x + y + carry on limbs, least significant limb first
RECURSIVE AddLimbs(_, _, _)
AddLimbs(x, y, carry) ==
    IF Len(x) = 0 /\ Len(y) = 0 THEN (IF carry = 0 THEN <<>> ELSE <<carry>>)
    ELSE LET digit == (IF Len(x) = 0 THEN 0 ELSE x[1]) + (IF Len(y) = 0 THEN 0 ELSE y[1]) + carry
         IN <<digit % 256>> \o AddLimbs(IF Len(x) = 0 THEN x ELSE Tail(x),
                                        IF Len(y) = 0 THEN y ELSE Tail(y), digit \div 256)

\* x - y - borrow on limbs, for x >= y + borrow
RECURSIVE SubLimbs(_, _, _)
SubLimbs(x, y, borrow) ==
    IF Len(x) = 0 THEN <<>>
    ELSE LET digit == x[1] - (IF Len(y) = 0 THEN 0 ELSE y[1]) - borrow
         IN <<digit % 256>> \o SubLimbs(Tail(x), IF Len(y) = 0 THEN y ELSE Tail(y),
                                        IF digit < 0 THEN 1 ELSE 0)

\* x * y on limbs
RECURSIVE MulBig(_, _)
MulBig(x, y) ==
    IF Len(y) = 0 THEN <<>>
    ELSE AddLimbs(MulLimbs(x, y[1], 0), <<0>> \o MulBig(x, Tail(y)), 0)

\* a * b for floats a, b >= 0
FloatMul(a, b) ==
    IF a.zero \/ b.zero THEN FloatZero
    ELSE RoundBits(LimbBits(MulBig(Limbs(a.sig), Limbs(b.sig))), a.e + b.e)

\* whether x < y, for bit strings with leading bit 1
LessBits(x, y) ==
    \/ Len(x) < Len(y)
    \/ /\ Len(x) = Len(y)
       /\ \E i \in 1..Len(x) : x[i] < y[i] /\ \A j \in 1..(i - 1) : x[j] = y[j]

\* x * 2^e - y * 2^e for bit strings x > y
SubBits(x, y, e) == RoundBits(LimbBits(SubLimbs(Limbs(x), Limbs(y), 0)), e)

Signed(neg, f) == [neg |-> neg, zero |-> f.zero, sig |-> f.sig, e |-> f.e]

Shifted(f, e) == f.sig \o Zeros(f.e - e)

Lower(a, b) == IF a.e < b.e THEN a.e ELSE b.e

\* a - b for floats a, b >= 0: the difference rounded once, with its sign
FloatSub(a, b) ==
    IF b.zero THEN Signed(FALSE, a)
    ELSE IF a.zero THEN Signed(TRUE, b)
    ELSE IF Shifted(a, Lower(a, b)) = Shifted(b, Lower(a, b)) THEN Signed(FALSE, FloatZero)
    ELSE IF LessBits(Shifted(a, Lower(a, b)), Shifted(b, Lower(a, b)))
         THEN Signed(TRUE, SubBits(Shifted(b, Lower(a, b)), Shifted(a, Lower(a, b)), Lower(a, b)))
         ELSE Signed(FALSE, SubBits(Shifted(a, Lower(a, b)), Shifted(b, Lower(a, b)), Lower(a, b)))

(***************************************************************************)
(* statistics.percentile and statistics.median.  p is the float n / d;     *)
(* the nodes carry int bounds, so a float target compares with them as     *)
(* its integer part does.                                                  *)
(***************************************************************************)
RECURSIVE SortedSeq(_)
SortedSeq(S) ==
    IF S = {} THEN <<>>
    ELSE LET m == CHOOSE x \in S : \A y \in S : x <= y
         IN <<m>> \o SortedSeq(S \ {m})

sortedAsGiven(obj) == [i \in 1..Len(obj.dist) |-> obj.dist[i][1]]

sorted(obj) == SortedSeq(Keys(obj.dist))

RECURSIVE PercentileNodes(_, _, _, _)
PercentileNodes(obj, ordered, i, cum) ==
    IF i > Len(ordered) THEN <<>>
    ELSE LET w == Lookup(obj.dist, ordered[i])
         IN <<[value |-> ordered[i], lower |-> cum, upper |-> cum + w]>>
            \o PercentileNodes(obj, ordered, i + 1, cum + w)

Target(obj, n, d) == FloatFloor(FloatMulInt(FloatDiv(n, d), obj.weight_sum))

RECURSIVE PercentileLoop(_, _, _, _, _)
PercentileLoop(nodes, target, bot, top, fuel) ==
    LET ind == (bot + top) \div 2 IN
    IF ind >= Len(nodes) THEN [exc |-> "IndexError", value |-> 0]
    ELSE LET item == nodes[ind + 1] IN
         IF target < item.lower \/ target >= item.upper
         THEN IF fuel = 0 THEN [exc |-> "NonTermination", value |-> 0]
              ELSE IF target < item.lower
                   THEN PercentileLoop(nodes, target, bot, ind, fuel - 1)
                   ELSE PercentileLoop(nodes, target, ind + 1, top, fuel - 1)
         ELSE [exc |-> "none", value |-> item.value]

percentile(obj, n, d) ==
    LET nodes == PercentileNodes(obj, sorted(obj), 1, 0)
    IN PercentileLoop(nodes, Target(obj, n, d), 0, Len(nodes), Len(nodes) + 1)

median(obj) == percentile(obj, 1, 2)

(***************************************************************************)
(* statistics.mode: a stable sort of the values by descending probability  *)
(***************************************************************************)
RECURSIVE SortedByWeightAscending(_)
SortedByWeightAscending(d) ==
    IF Len(d) = 0 THEN <<>>
    ELSE LET i == CHOOSE i \in 1..Len(d) :
                      /\ \A j \in 1..Len(d) : d[j][2] >= d[i][2]
                      /\ \A j \in 1..(i - 1) : d[j][2] > d[i][2]
         IN <<d[i][1]>> \o SortedByWeightAscending(SubSeq(d, 1, i - 1) \o SubSeq(d, i + 1, Len(d)))

RECURSIVE SortedByWeight(_)
SortedByWeight(d) ==
    IF Len(d) = 0 THEN <<>>
    ELSE LET i == CHOOSE i \in 1..Len(d) :
                      /\ \A j \in 1..Len(d) : d[j][2] <= d[i][2]
                      /\ \A j \in 1..(i - 1) : d[j][2] < d[i][2]
         IN <<d[i][1]>> \o SortedByWeight(SubSeq(d, 1, i - 1) \o SubSeq(d, i + 1, Len(d)))

mode(obj, k) ==
    LET pairs == SortedByWeight(obj.dist) IN
    IF k = 0 THEN [exc |-> "none", value |-> pairs[Len(pairs)]]
    ELSE IF k > Len(pairs) THEN [exc |-> "IndexError", value |-> 0]
         ELSE [exc |-> "none", value |-> pairs[k]]

(***************************************************************************)
(* statistics.expected_value: the int sum of value * weight, divided by    *)
(* the int weight_sum, as a float                                          *)
(***************************************************************************)
RECURSIVE SumValWeight(_)
SumValWeight(d) == IF Len(d) = 0 THEN 0 ELSE d[1][1] * d[1][2] + SumValWeight(Tail(d))

expected_value(obj) == FloatQuot(SumValWeight(obj.dist), obj.weight_sum)

(***************************************************************************)
(* rand_apply.  An argument is a RandomVariable or a plain constant.  The  *)
(* objects handed to func are cells [v, id]: v is the value and id names   *)
(* the object, <<0, 0, j>> for key number j of the live variable rv,       *)
(* <<1, p, j>> for key number j of another argument at place p, and        *)
(* <<2, n, 0>> for copy number n, so that a func that changes its          *)
(* arguments in place reaches every cell that is the same object.  The     *)
(* values of a shared argument are objects that copy.deepcopy returns as   *)
(* they are (classes, functions), the values of any other argument are     *)
(* objects it copies.  heap maps every object of the caller to the value   *)
(* it holds.                                                               *)
(***************************************************************************)
VarArg(obj, live) == [isvar |-> TRUE, obj |-> obj, val |-> 0, live |-> live, atomic |-> FALSE]

ConstArg(v) == [isvar |-> FALSE, obj |-> NoObj, val |-> v, live |-> FALSE, atomic |-> FALSE]

Shared(a) == [a EXCEPT !.atomic = TRUE]

Wrap(a) == IF a.isvar THEN a.obj ELSE RandomVariable(<< <<a.val, 1>> >>).obj

\* var._dist.items() of the argument at place p
Items(a, p) ==
    LET o == Wrap(a)
    IN [j \in 1..Len(o.dist) |->
           [v |-> o.dist[j][1], w |-> o.dist[j][2],
            id |-> IF a.isvar /\ a.live THEN <<0, 0, j>> ELSE <<1, p, j>>,
            atomic |-> a.atomic]]

RECURSIVE Prepend(_, _, _)
Prepend(items, i, rest) ==
    IF i > Len(items) THEN <<>>
    ELSE [k \in 1..Len(rest) |-> <<items[i]>> \o rest[k]] \o Prepend(items, i + 1, rest)

\* itertools.product: the last list varies fastest
RECURSIVE Product(_)
Product(lists) ==
    IF Len(lists) = 0 THEN << <<>> >>
    ELSE Prepend(Head(lists), 1, Product(Tail(lists)))

\* the objects of the caller and the values they hold before the call
Heap(lists) ==
    LET cells == UNION {{lists[p][j] : j \in 1..Len(lists[p])} : p \in 1..Len(lists)}
    IN [id \in {c.id : c \in cells} |-> (CHOOSE c \in cells : c.id = id).v]

\* copy.deepcopy: the object itself when it is a class or a function, or
\* else copy number n of the object of the cell
deepcopy(cell, n) ==
    IF cell.atomic THEN [v |-> cell.v, id |-> cell.id]
    ELSE [v |-> cell.v, id |-> <<2, n, 0>>]

\* line 169: one deepcopy of the tuple of positional values; a tuple that
\* holds the same object twice is copied to a tuple that does so too
InstArgs(combo) ==
    [i \in 1..Len(combo) |->
        deepcopy(combo[i], CHOOSE k \in 1..i :
                               /\ combo[k].id = combo[i].id
                               /\ \A m \in 1..(k - 1) : combo[m].id # combo[i].id)]

\* line 178: one deepcopy for every named value
InstKwargs(combo, base) == [i \in 1..Len(combo) |-> deepcopy(combo[i], base + i)]

\* the cells with the values their objects hold now: a copy keeps its own
\* value, an object of the caller has its value in heap
Resolve(cells, heap) ==
    [i \in 1..Len(cells) |->
        IF cells[i].id[1] = 2 THEN cells[i] ELSE [cells[i] EXCEPT !.v = heap[cells[i].id]]]

RECURSIVE ProdWeightsNoInitial(_)
ProdWeightsNoInitial(combo) ==
    IF Len(combo) = 0 THEN 0
    ELSE IF Len(combo) = 1 THEN combo[1].w
         ELSE combo[1].w * ProdWeightsNoInitial(Tail(combo))

RECURSIVE ProdWeights(_)
ProdWeights(combo) == IF Len(combo) = 0 THEN 1 ELSE combo[1].w * ProdWeights(Tail(combo))

(***************************************************************************)
(* The functions given to rand_apply: add and pack take any arguments,     *)
(* inv divides by the sum of its arguments, sqr (of variance) takes one    *)
(* positional argument.  With mut, a func that does not fail also adds     *)
(* one, in place, to every argument it is given.                           *)
(***************************************************************************)
RECURSIVE SumSeq(_)
SumSeq(s) == IF Len(s) = 0 THEN 0 ELSE s[1] + SumSeq(Tail(s))

RECURSIVE Pack(_)
Pack(s) == IF Len(s) = 0 THEN 0 ELSE s[Len(s)] + (MaxVal + 2) * Pack(SubSeq(s, 1, Len(s) - 1))

Funcs == {"add", "pack", "inv", "sqr"}

FuncValue(f, a, k) ==
    IF f = "add" THEN [exc |-> "none", val |-> SumSeq(a \o k)]
    ELSE IF f = "pack" THEN [exc |-> "none", val |-> Pack(a \o k)]
    ELSE IF f = "inv"
         THEN IF SumSeq(a \o k) = 0 THEN [exc |-> "ZeroDivisionError", val |-> 0]
              ELSE [exc |-> "none", val |-> MaxVal \div SumSeq(a \o k)]
         ELSE IF Len(a) # 1 \/ Len(k) # 0 THEN [exc |-> "TypeError", val |-> 0]
              ELSE [exc |-> "none", val |-> a[1] * a[1]]

\* how many of the given cells are the object id
Given(given, id) == Cardinality({j \in 1..Len(given) : given[j].id = id})

\* the cells after func has added one to the object of every cell of given
Touch(cells, given, mut) ==
    [i \in 1..Len(cells) |->
        [cells[i] EXCEPT !.v = IF mut THEN @ + Given(given, cells[i].id) ELSE @]]

\* the objects of the caller after func has done so
TouchHeap(heap, given, mut) ==
    [id \in DOMAIN heap |-> IF mut THEN heap[id] + Given(given, id) ELSE heap[id]]

CellVals(cells) == [i \in 1..Len(cells) |-> cells[i].v]

\* func(*a, **k), on the cells with the values they hold at the call
func(f, mut, a, k, heap) ==
    LET r == FuncValue(f, CellVals(a), CellVals(k))
    IN [exc |-> r.exc, val |-> r.val, a |-> Touch(a, a \o k, mut /\ r.exc = "none"),
        heap |-> TouchHeap(heap, a \o k, mut /\ r.exc = "none")]

\* dist[val] = prob, or dist[val] += prob
Accumulate(dist, val, prob) ==
    IF HasKey(dist, val)
    THEN [i \in 1..Len(dist) |-> IF dist[i][1] = val THEN <<val, dist[i][2] + prob>> ELSE dist[i]]
    ELSE Append(dist, <<val, prob>>)

\* lines 186-191: one call of func on the instances and what it leaves
Step(f, mut, a, k, prob, acc) ==
    LET r == func(f, mut, a, k, acc.heap)
    IN [exc |-> r.exc,
        dist |-> IF r.exc = "none" THEN Accumulate(acc.dist, r.val, prob) ELSE acc.dist,
        evals |-> Append(acc.evals, <<CellVals(a), CellVals(k)>>),
        heap |-> r.heap,
        a |-> r.a]

\* lines 173-191: the loop over the named arguments' combinations
RECURSIVE InnerLoop(_, _, _, _, _, _, _)
InnerLoop(f, mut, kcombos, i, ainst, aprob, acc) ==
    IF i > Len(kcombos) THEN acc
    ELSE IF aprob * ProdWeights(kcombos[i]) > 0
         THEN LET seen == Step(f, mut, Resolve(ainst, acc.heap),
                               Resolve(InstKwargs(kcombos[i], Len(ainst)), acc.heap),
                               aprob * ProdWeights(kcombos[i]), acc)
              IN IF seen.exc # "none" THEN seen
                 ELSE InnerLoop(f, mut, kcombos, i + 1, seen.a, aprob, seen)
         ELSE InnerLoop(f, mut, kcombos, i + 1, ainst, aprob, acc)

RECURSIVE OuterLoopSkipLast(_, _, _, _, _, _)
OuterLoopSkipLast(f, mut, acombos, i, kcombos, acc) ==
    IF i >= Len(acombos) THEN acc
    ELSE LET done == InnerLoop(f, mut, kcombos, 1, InstArgs(acombos[i]),
                               ProdWeights(acombos[i]), acc)
         IN IF done.exc # "none" THEN done
            ELSE OuterLoopSkipLast(f, mut, acombos, i + 1, kcombos, done)

\* lines 165-172: the loop over the positional arguments' combinations
RECURSIVE OuterLoop(_, _, _, _, _, _)
OuterLoop(f, mut, acombos, i, kcombos, acc) ==
    IF i > Len(acombos) THEN acc
    ELSE LET done == InnerLoop(f, mut, kcombos, 1, InstArgs(acombos[i]),
                               ProdWeights(acombos[i]), acc)
         IN IF done.exc # "none" THEN done
            ELSE OuterLoop(f, mut, acombos, i + 1, kcombos, done)

\* line 192: RandomVariable(dist), reached only when no call of func failed
ReturnSwallow(acc, r) ==
    [exc |-> r.exc, obj |-> r.obj, evals |-> acc.evals, heap |-> acc.heap]

Return(acc, r) ==
    IF acc.exc # "none"
    THEN [exc |-> acc.exc, obj |-> NoObj, evals |-> acc.evals, heap |-> acc.heap]
    ELSE [exc |-> r.exc, obj |-> r.obj, evals |-> acc.evals, heap |-> acc.heap]

Build(acc) == Return(acc, RandomVariable(acc.dist))

BuildSwallow(acc) == ReturnSwallow(acc, RandomVariable(acc.dist))

\* lines 165-191 on the arguments' lists of items
Loops(f, mut, alists, klists) ==
    OuterLoop(f, mut, Product(alists), 1, Product(klists),
              [exc |-> "none", dist |-> <<>>, evals |-> <<>>, heap |-> Heap(alists \o klists)])

ArgItems(args) == [i \in 1..Len(args) |-> Items(args[i], i)]

KwargItems(args, kwargs) == [i \in 1..Len(kwargs) |-> Items(kwargs[i], Len(args) + i)]

rand_applySwallow(f, mut, args, kwargs) ==
    BuildSwallow(Loops(f, mut, ArgItems(args), KwargItems(args, kwargs)))

rand_apply(f, mut, args, kwargs) ==
    Build(Loops(f, mut, ArgItems(args), KwargItems(args, kwargs)))

\* how many of the nodes up to number i have a value of positive weight
Rank(search, i) == Cardinality({k \in 1..i : search[k].lower < search[k].upper})

\* the value that key number j of the variable holds according to heap
Held(obj, heap, j) ==
    IF <<0, 0, j>> \in DOMAIN heap THEN heap[<<0, 0, j>>] ELSE obj.dist[j][1]

\* what in-place changes of its key objects do to the live variable: _dist
\* and the nodes of _search hold the same objects
WriteThrough(obj, heap) ==
    [obj EXCEPT !.dist = [j \in 1..Len(obj.dist) |-> <<Held(obj, heap, j), obj.dist[j][2]>>],
                !.search = [i \in 1..Len(obj.search) |->
                               IF obj.search[i].lower < obj.search[i].upper
                               THEN [obj.search[i] EXCEPT
                                         !.value = Held(obj, heap, Rank(obj.search, i))]
                               ELSE obj.search[i]]]

(***************************************************************************)
(* statistics.variance, in floats: the squares' expected value minus the   *)
(* square of the expected value                                            *)
(***************************************************************************)
sqr(x) == FloatMul(x, x)

DifferenceUnsquared(e2, e1, sq) ==
    [val |-> FloatSub(e2, e1), obj |-> sq.obj, heap |-> sq.heap]

Difference(e2, e1, sq) ==
    [val |-> FloatSub(e2, sqr(e1)), obj |-> sq.obj, heap |-> sq.heap]

OfSquares(sq, e1) == Difference(expected_value(sq.obj), e1, sq)

variance(obj) ==
    OfSquares(rand_apply("sqr", FALSE, <<VarArg(obj, TRUE)>>, <<>>), expected_value(obj))

(***************************************************************************)
(* The state machine: one live variable rv and the last completed call.    *)
(***************************************************************************)
Idle == [op |-> "idle", exc |-> "none", arg |-> <<>>, ret |-> <<>>]

Init ==
    /\ rv = NoObj
    /\ last = Idle

Ready == rv # NoObj /\ last.op \in {"idle", "construct", "uniform"}

Bind(r) == IF r.exc = "none" THEN r.obj ELSE rv

Construct ==
    /\ rv = NoObj
    /\ \E d \in Dicts :
        LET r == RandomVariable(d) IN
        /\ rv' = Bind(r)
        /\ last' = [op |-> "construct", exc |-> r.exc, arg |-> d, ret |-> r.obj]

Uniform ==
    /\ rv = NoObj
    /\ \E lo \in 0..1, n \in 0..MaxN :
        LET r == uniform(lo, n) IN
        /\ rv' = Bind(r)
        /\ last' = [op |-> "uniform", exc |-> r.exc, arg |-> <<lo, n>>, ret |-> r.obj]

QueryLen ==
    /\ Ready
    /\ last' = [op |-> "len", exc |-> "none", arg |-> <<>>, ret |-> len(rv)]
    /\ UNCHANGED rv

QueryGetItem ==
    /\ Ready
    /\ \E v \in Values :
        last' = [op |-> "getitem", exc |-> "none", arg |-> v, ret |-> getitem(rv, v)]
    /\ UNCHANGED rv

QueryContains ==
    /\ Ready
    /\ \E v \in Values :
        last' = [op |-> "contains", exc |-> "none", arg |-> v, ret |-> contains(rv, v)]
    /\ UNCHANGED rv

QueryIter ==
    /\ Ready
    /\ last' = [op |-> "iter", exc |-> "none", arg |-> <<>>, ret |-> <<iter(rv), probs(rv)>>]
    /\ UNCHANGED rv

Choice ==
    /\ Ready
    /\ \E xg \in Draws(rv) :
        LET r == choice(rv, xg) IN
        last' = [op |-> "choice", exc |-> r.exc, arg |-> xg, ret |-> r.value]
    /\ UNCHANGED rv

Sample ==
    /\ Ready
    /\ \E n \in 0..MaxSample : \E xs \in [1..n -> SampleDraws(rv)] :
        LET r == sample(rv, xs) IN
        last' = [op |-> "sample", exc |-> r.exc, arg |-> xs, ret |-> r.value]
    /\ UNCHANGED rv

\* rand_apply on the live variable and constants; the keys of the variable
\* are objects that deepcopy copies, or, when shared, classes holding their
\* value that deepcopy returns as they are
Self(shared) == IF shared THEN Shared(VarArg(rv, TRUE)) ELSE VarArg(rv, TRUE)

SelfArgs(shared) ==
    {<<>>, <<Self(shared)>>, <<Self(shared), Self(shared)>>, <<Self(shared), ConstArg(1)>>,
     <<ConstArg(0), Self(shared)>>}

SelfKwargs(shared) == {<<>>, <<Self(shared)>>, <<ConstArg(1)>>}

Variants == {<<f, FALSE>> : f \in Funcs} \cup {<<"add", TRUE>>}

ApplyRecord(fm, args, kwargs, r) ==
    [op |-> "rand_apply", exc |-> r.exc,
     arg |-> [f |-> fm[1], mut |-> fm[2], args |-> args, kwargs |-> kwargs],
     ret |-> [obj |-> r.obj, evals |-> r.evals]]

\* the model names a key by the value it holds: a call is followed as long
\* as the keys keep values within MaxVal that tell them apart
Told(obj) ==
    \A i \in 1..Len(obj.search) :
        /\ obj.search[i].value <= MaxVal
        /\ \A j \in 1..(i - 1) : obj.search[j].value # obj.search[i].value

RandApply ==
    /\ Ready
    /\ \E fm \in Variants, shared \in BOOLEAN :
        /\ shared => fm[2]
        /\ \E args \in SelfArgs(shared), kwargs \in SelfKwargs(shared) :
            LET r == rand_apply(fm[1], fm[2], args, kwargs) IN
            /\ shared => Told(WriteThrough(rv, r.heap))
            /\ last' = ApplyRecord(fm, args, kwargs, r)
            /\ rv' = WriteThrough(rv, r.heap)

PDens(obj) == 1..MaxDen \cup {Len(obj.dist)}

Percentile ==
    /\ Ready
    /\ \E d \in PDens(rv) : \E n \in 0..d :
        LET r == percentile(rv, n, d) IN
        last' = [op |-> "percentile", exc |-> r.exc, arg |-> <<n, d>>, ret |-> r.value]
    /\ UNCHANGED rv

Median ==
    /\ Ready
    /\ LET r == median(rv) IN
       last' = [op |-> "median", exc |-> r.exc, arg |-> <<>>, ret |-> r.value]
    /\ UNCHANGED rv

Mode ==
    /\ Ready
    /\ \E k \in 0..(Len(rv.dist) + 1) :
        LET r == mode(rv, k) IN
        last' = [op |-> "mode", exc |-> r.exc, arg |-> k, ret |-> r.value]
    /\ UNCHANGED rv

ExpectedValue ==
    /\ Ready
    /\ last' = [op |-> "expected_value", exc |-> "none", arg |-> <<>>, ret |-> expected_value(rv)]
    /\ UNCHANGED rv

Variance ==
    /\ Ready
    /\ LET r == variance(rv) IN
       /\ last' = [op |-> "variance", exc |-> "none", arg |-> <<>>, ret |-> [val |-> r.val, obj |-> r.obj]]
       /\ rv' = WriteThrough(rv, r.heap)

\* the caller drops the result of the last call and goes on
Ack ==
    /\ last.op \notin {"idle", "call"}
    /\ last' = Idle
    /\ UNCHANGED rv

Next ==
    \/ Construct
    \/ Uniform
    \/ QueryLen
    \/ QueryGetItem
    \/ QueryContains
    \/ QueryIter
    \/ Choice
    \/ Sample
    \/ RandApply
    \/ Percentile
    \/ Median
    \/ Mode
    \/ ExpectedValue
    \/ Variance
    \/ Ack

Spec == Init /\ [][Next]_vars

(***************************************************************************)
(* percentile and median on their own: the variable is any variable the    *)
(* constructor accepts, or uniform(range(N)) up to MaxPctN.                *)
(***************************************************************************)
Built == {RandomVariable(d).obj : d \in {e \in Dicts : RandomVariable(e).exc = "none"}}

InitPct ==
    /\ rv \in Built \cup {uniform(0, n).obj : n \in 1..MaxPctN}
    /\ last = Idle

NextPct ==
    \/ Percentile
    \/ Median
    \/ Ack

SpecPct == InitPct /\ [][NextPct]_vars

(***************************************************************************)
(* rand_apply on its own: a call with up to MaxArgs positional arguments   *)
(* and at most one named argument, each a constant or a two-point          *)
(* variable {0: a, 1: b} with a up to MaxWeight and b up to 1 (an entry of *)
(* weight 0 is pruned when it is built) or the one-point variable          *)
(* const(1); func is any of Variants, add also changing its arguments in   *)
(* place                                                                   *)
(***************************************************************************)
ApplyObjs ==
    {RandomVariable(<< <<0, w[1]>>, <<1, w[2]>> >>).obj :
        w \in {u \in (0..MaxWeight) \X (0..1) : u[1] + u[2] > 0}}
    \cup {RandomVariable(<< <<1, 1>>, <<0, MaxWeight>> >>).obj, const(1).obj}

ApplyOperands == {VarArg(o, FALSE) : o \in ApplyObjs} \cup {ConstArg(v) : v \in 0..1}

ApplyArgs == UNION {[1..n -> ApplyOperands] : n \in 0..MaxArgs}

ApplyKwargs == {<<>>, <<ConstArg(1)>>,
                <<VarArg(RandomVariable(<< <<0, 1>>, <<1, MaxWeight>> >>).obj, FALSE)>>}

InitApply ==
    /\ rv = NoObj
    /\ \E fm \in Variants, args \in ApplyArgs, kwargs \in ApplyKwargs :
        last = [op |-> "call", exc |-> "none",
                arg |-> [f |-> fm[1], mut |-> fm[2], args |-> args, kwargs |-> kwargs],
                ret |-> <<>>]

ApplyCall ==
    /\ last.op = "call"
    /\ LET a == last.arg
           r == rand_apply(a.f, a.mut, a.args, a.kwargs)
       IN /\ last' = ApplyRecord(<<a.f, a.mut>>, a.args, a.kwargs, r)
          /\ rv' = WriteThrough(rv, r.heap)

NextApply == ApplyCall

SpecApply == InitApply /\ [][NextApply]_vars

(***************************************************************************)
(* randomable: the wrapper keeps func (viability is not used) and a call   *)
(* of the wrapper passes its arguments on to rand_apply.                   *)
(***************************************************************************)
randomable(fm, viability) == [func |-> fm]

CallPositionalOnly(lifted, args, kwargs) ==
    rand_apply(lifted.func[1], lifted.func[2], args, <<>>)

\* line 205: lambda *args, **kwargs: rand_apply(func, *args, **kwargs)
Call(lifted, args, kwargs) ==
    rand_apply(lifted.func[1], lifted.func[2], args, kwargs)

LiftOperands ==
    {ConstArg(0), ConstArg(1), VarArg(uniform(0, 2).obj, FALSE),
     VarArg(RandomVariable(<< <<1, 1>>, <<0, MaxWeight>> >>).obj, FALSE)}

LiftArgs == UNION {[1..n -> LiftOperands] : n \in 0..MaxArgs}

InitLift ==
    /\ rv = NoObj
    /\ last = Idle

Lift ==
    /\ last.op = "idle"
    /\ \E fm \in Variants, viability \in 0..1 :
        last' = [op |-> "randomable", exc |-> "none",
                 arg |-> [f |-> fm[1], mut |-> fm[2], viability |-> viability],
                 ret |-> randomable(fm, viability)]
    /\ UNCHANGED rv

LiftedCall ==
    /\ last.op = "randomable"
    /\ \E args \in LiftArgs, kwargs \in ApplyKwargs :
        LET r == Call(last.ret, args, kwargs) IN
        /\ last' = [op |-> "lifted_call", exc |-> r.exc,
                    arg |-> [f |-> last.arg.f, mut |-> last.arg.mut,
                             args |-> args, kwargs |-> kwargs],
                    ret |-> [obj |-> r.obj, evals |-> r.evals]]
        /\ rv' = WriteThrough(rv, r.heap)

NextLift == Lift \/ LiftedCall

SpecLift == InitLift /\ [][NextLift]_vars

(***************************************************************************)
(* Properties                                                              *)
(***************************************************************************)
Constructed == last.op \in {"construct", "uniform"} /\ last.exc = "none"

InputDict ==
    IF last.op = "construct" THEN last.arg ELSE UniformDict(last.arg[1], last.arg[2])

\* the sum of the values of a function with a finite domain
RECURSIVE FnSum(_)
FnSum(g) ==
    IF DOMAIN g = {} THEN 0
    ELSE LET x == CHOOSE x \in DOMAIN g : TRUE
         IN g[x] + FnSum([y \in DOMAIN g \ {x} |-> g[y]])

\* the weight stored for v, 0 when v is not stored
Stored(obj, v) ==
    FnSum([i \in {j \in 1..Len(obj.dist) : obj.dist[j][1] = v} |-> obj.dist[i][2]])

\* C2: a mapping with no entries is refused with EmptyDistributionError, and
\* ZeroDistributionError is kept for non-empty mappings of zero weights only.
C2_EmptyMappingRaisesEmptyDistribution ==
    last.op \in {"construct", "uniform"} =>
        /\ Len(InputDict) = 0 => last.exc = "EmptyDistributionError"
        /\ last.exc = "ZeroDistributionError" =>
               /\ Len(InputDict) > 0
               /\ \A i \in 1..Len(InputDict) : InputDict[i][2] = 0

\* C3: a mapping with a weight below 0 is refused with NegativeWeightError,
\* whatever the other weights are, and no variable results.
C3_NegativeWeightRaisesNegativeWeight ==
    (last.op = "construct" /\ \E i \in 1..Len(last.arg) : last.arg[i][2] < 0) =>
        /\ last.exc = "NegativeWeightError"
        /\ last.ret = NoObj
        /\ rv = NoObj

\* C4: a successful construction stores exactly the entries of positive
\* weight, weights unchanged: at least one entry, every stored weight > 0,
\* weight_sum > 0, and a value given with weight 0 is neither contained nor
\* counted by len.
C4_StoresPositiveEntries ==
    Constructed =>
        LET d == InputDict
            o == last.ret
        IN /\ rv = o
           /\ o.dist = SelectSeq(d, LAMBDA e : e[2] > 0)
           /\ Len(o.dist) >= 1
           /\ \A i \in 1..Len(o.dist) : o.dist[i][2] > 0
           /\ o.weight_sum > 0
           /\ \A i \in 1..Len(d) : d[i][2] = 0 => ~contains(o, d[i][1])
           /\ len(o) = Cardinality({i \in 1..Len(d) : d[i][2] > 0})

C4_Witness ==
    /\ Constructed
    /\ Len(InputDict) = 2
    /\ InputDict[1][2] = 0
    /\ len(rv) = 1

\* the variables in sight: the live one and the one the last call built
Objects ==
    (IF rv # NoObj THEN {rv} ELSE {})
    \cup (IF Constructed THEN {last.ret} ELSE {})
    \cup (IF last.op \in {"rand_apply", "variance"} /\ last.exc = "none"
          THEN {last.ret.obj} ELSE {})

\* C5: in every constructed variable (built directly or by rand_apply) the
\* stored weights sum to weight_sum, so the probabilities sum to 1.
C5_ProbabilitiesSumToOne ==
    \A o \in Objects :
        /\ o.weight_sum > 0
        /\ \A i \in 1..Len(probs(o)) : probs(o)[i][2] = o.weight_sum
        /\ FnSum([i \in 1..Len(probs(o)) |-> probs(o)[i][1]]) = o.weight_sum

C5_Witness ==
    /\ last.op = "rand_apply"
    /\ last.exc = "none"
    /\ Len(last.ret.obj.dist) >= 2
    /\ Len(last.ret.evals) > Len(last.ret.obj.dist)

\* C6: for every draw 0 <= x < weight_sum the search of choice stops and
\* returns the value of the one interval with lower <= x < upper; a value of
\* weight w is returned for a measure w of the draws, a value given with
\* weight 0 never.
C6_ChoiceReturnsTheInterval ==
    last.op = "choice" =>
        LET hits == {i \in 1..Len(rv.search) :
                        /\ Grid * rv.search[i].lower <= last.arg
                        /\ last.arg < Grid * rv.search[i].upper}
        IN /\ last.exc = "none"
           /\ Cardinality(hits) = 1
           /\ \A i \in hits : rv.search[i].value = last.ret
           /\ contains(rv, last.ret)
           /\ \A i \in 1..Len(rv.search) :
                  Cardinality({x \in Draws(rv) :
                                   /\ choice(rv, x).exc = "none"
                                   /\ choice(rv, x).value = rv.search[i].value})
                  = Grid * (rv.search[i].upper - rv.search[i].lower)
           /\ \A x \in Draws(rv) : choice(rv, x).exc = "none"

C6_Witness ==
    /\ last.op = "choice"
    /\ last.exc = "none"
    /\ Len(rv.search) >= 2
    /\ Len(rv.search) > Len(rv.dist)
    /\ last.ret = rv.search[1].value
    /\ last.arg = Grid * rv.search[1].upper - 1

\* C7: the sampling index has one interval per stored entry (none for a value
\* given with weight 0), in the order of the input, with lower(0) = 0,
\* upper(i) = lower(i) + weight(i), lower(i+1) = upper(i) and the last upper
\* equal to weight_sum.
C7_IndexOverStoredEntries ==
    Constructed =>
        LET o == last.ret
            n == Len(o.search)
        IN /\ n = len(o)
           /\ \A i \in 1..n :
                  /\ i <= Len(o.dist)
                  /\ o.search[i].value = o.dist[i][1]
                  /\ o.search[i].upper = o.search[i].lower + o.dist[i][2]
                  /\ o.search[i].lower = IF i = 1 THEN 0 ELSE o.search[i - 1].upper
           /\ o.search[n].upper = o.weight_sum

\* C8: a variable never changes after its construction, whatever is called
\* on it: queries, choice, rand_apply (also with a function that changes its
\* arguments in place) and the statistics.
C8_ImmutableAfterConstruction == [][rv # NoObj => rv' = rv]_vars

(***************************************************************************)
(* rand_apply against the push-forward of the product measure.  A          *)
(* combination picks one entry of every argument's support (a constant     *)
(* has the one entry <<constant, 1>>).                                     *)
(***************************************************************************)
Support(a) == IF a.isvar THEN a.obj.dist ELSE << <<a.val, 1>> >>

Operands == last.arg.args \o last.arg.kwargs

\* the size of the largest support among the arguments
Widest ==
    IF Len(Operands) = 0 THEN 0
    ELSE CHOOSE m \in {Len(Support(Operands[i])) : i \in 1..Len(Operands)} :
             \A i \in 1..Len(Operands) : Len(Support(Operands[i])) <= m

Combos ==
    {c \in [1..Len(Operands) -> 1..Widest] :
        \A i \in 1..Len(Operands) : c[i] <= Len(Support(Operands[i]))}

ComboVals(c) == [i \in 1..Len(Operands) |-> Support(Operands[i])[c[i]][1]]

RECURSIVE ProdSeq(_)
ProdSeq(s) == IF Len(s) = 0 THEN 1 ELSE s[1] * ProdSeq(Tail(s))

\* func on the values of a combination, positional and named
FuncOn(c) ==
    FuncValue(last.arg.f, SubSeq(ComboVals(c), 1, Len(last.arg.args)),
              SubSeq(ComboVals(c), Len(last.arg.args) + 1, Len(Operands)))

ComboWeight(c) == ProdSeq([i \in 1..Len(Operands) |-> Support(Operands[i])[c[i]][2]])

Fails(c) == FuncOn(c).exc # "none"

PushWeight(y) ==
    FnSum([c \in {k \in Combos : FuncOn(k).val = y} |->
              ComboWeight(c)])

Outputs == {FuncOn(c).val : c \in Combos}

\* C1: the weight of every output value y of rand_apply is the sum, over the
\* combinations of the arguments' supports that func maps to y, of the
\* product of the arguments' weights; a value func never produces has
\* probability 0.
C1_PushForwardWeights ==
    (last.op = "rand_apply" /\ last.exc = "none") =>
        /\ Keys(last.ret.obj.dist) = Outputs
        /\ \A y \in Outputs \cup {0 - 1} \cup Values :
               /\ Stored(last.ret.obj, y) = PushWeight(y)
               /\ y \notin Outputs => getitem(last.ret.obj, y)[1] = 0
               /\ y \in Outputs =>
                      getitem(last.ret.obj, y) = <<PushWeight(y), last.ret.obj.weight_sum>>

\* C9: when func fails for a combination, rand_apply fails there with
\* func's failure: nothing is evaluated after it and no variable is returned.
C9_FuncFailurePropagates ==
    (last.op = "rand_apply" /\ \E c \in Combos : Fails(c)) =>
        LET ev == last.ret.evals
            seen(j) == FuncValue(last.arg.f, ev[j][1], ev[j][2])
        IN /\ last.exc \in {"ZeroDivisionError", "TypeError"}
           /\ last.ret.obj = NoObj
           /\ Len(ev) >= 1
           /\ seen(Len(ev)).exc = last.exc
           /\ \A j \in 1..(Len(ev) - 1) : seen(j).exc = "none"

C9_Witness ==
    /\ last.op = "rand_apply"
    /\ last.exc = "ZeroDivisionError"
    /\ Len(last.ret.evals) >= 3
    /\ Len(last.arg.kwargs) = 1

(***************************************************************************)
(* percentile against the cumulative weights of the support                *)
(***************************************************************************)
\* the weight of the supported values up to v
CumWeight(obj, v) ==
    FnSum([i \in {j \in 1..Len(obj.dist) : obj.dist[j][1] <= v} |-> obj.dist[i][2]])

\* v is the supported value whose interval [lower, upper) of cumulative
\* weight holds the target t: the smallest one whose cumulative weight
\* exceeds t
HoldsTarget(obj, t, v) ==
    /\ contains(obj, v)
    /\ CumWeight(obj, v) - Stored(obj, v) <= t
    /\ t < CumWeight(obj, v)
    /\ \A u \in Keys(obj.dist) : CumWeight(obj, u) > t => v <= u

IsUniformRange(obj) == obj.dist = UniformDict(0, Len(obj.dist))

PowerOfTwo(n) == n \in {1, 2, 4, 8, 16, 32, 64, 128}

PercentileBelowOne == last.op = "percentile" /\ last.arg[1] < last.arg[2]

PercentileGeneral ==
    /\ PercentileBelowOne =>
           /\ last.exc = "none"
           /\ HoldsTarget(rv, Target(rv, last.arg[1], last.arg[2]), last.ret)
    /\ last.op = "median" =>
           /\ last.exc = "none"
           /\ HoldsTarget(rv, rv.weight_sum \div 2, last.ret)
           /\ last.ret = percentile(rv, 1, 2).value

\* C10 as stated: for 0 <= p < 1 percentile returns the supported value
\* whose cumulative interval holds p * weight_sum, median is the percentile
\* of 0.5, and percentile(uniform(0..N-1), i/N) = i for all i in [0, N).
C10_PercentileOfUniformIsExact ==
    /\ PercentileGeneral
    /\ (PercentileBelowOne /\ IsUniformRange(rv) /\ last.arg[2] = len(rv)) =>
           last.ret = last.arg[1]

\* C10 amended: as stated, but percentile(uniform(0..N-1), i/N) is i only
\* when the float product (i/N) * N is not below i, as it is for every N
\* that is a power of two; otherwise it is i - 1.
C10_PercentileOfUniformUpToRounding ==
    /\ PercentileGeneral
    /\ (PercentileBelowOne /\ IsUniformRange(rv) /\ last.arg[2] = len(rv)) =>
           /\ last.ret = IF Target(rv, last.arg[1], last.arg[2]) >= last.arg[1]
                          THEN last.arg[1] ELSE last.arg[1] - 1
           /\ PowerOfTwo(len(rv)) => last.ret = last.arg[1]

C10_Witness ==
    /\ last.op = "percentile"
    /\ IsUniformRange(rv)
    /\ len(rv) = 16
    /\ last.arg = <<5, 16>>
    /\ last.ret = 5

\* C11: percentile is defined on the whole range 0 <= p <= 1, the endpoints
\* included: the search ends and returns a value of the support.
C11_PercentileOnClosedRange ==
    (last.op = "percentile" /\ last.arg[1] <= last.arg[2]) =>
        /\ last.exc = "none"
        /\ HasKey(rv.dist, last.ret)

\* the place of the value v in the stored distribution
Place(obj, v) == CHOOSE i \in 1..Len(obj.dist) : obj.dist[i][1] = v

\* C12: for k in 1..size, mode(var, k) is a supported value, different k
\* give different values, the weight of mode(var, k) does not increase with
\* k, and values of equal weight come in the order the variable stores them.
C12_ModeEnumeratesSupport ==
    (last.op = "mode" /\ last.arg \in 1..len(rv)) =>
        /\ last.exc = "none"
        /\ HasKey(rv.dist, last.ret)
        /\ \A k \in 1..len(rv) :
               /\ mode(rv, k).exc = "none"
               /\ k # last.arg => mode(rv, k).value # last.ret
               /\ k < last.arg =>
                      /\ Lookup(rv.dist, mode(rv, k).value) >= Lookup(rv.dist, last.ret)
                      /\ Lookup(rv.dist, mode(rv, k).value) = Lookup(rv.dist, last.ret) =>
                             Place(rv, mode(rv, k).value) < Place(rv, last.ret)

C12_Witness ==
    /\ last.op = "mode"
    /\ last.arg = 2
    /\ len(rv) = 2
    /\ rv.dist[1][2] < rv.dist[2][2]
    /\ last.ret = rv.dist[1][1]

\* whether the float f >= 0 is n / d up to 2^-24 (n, d small ints, d >= 1)
Near(f, n, d) ==
    (IF f.zero THEN 0 ELSE FloatFloor([FloatMulInt(f, d) EXCEPT !.e = @ + 24]))
        \in (n * 2 ^ 24 - 1)..(n * 2 ^ 24)

\* C13: the variance of the uniform variable over 1..n is (n - 1)(n + 1) / 12:
\* in exact arithmetic on the sums of the variable and of the variable of
\* its squares, and the float returned is this number up to rounding
C13_VarianceOfUniform ==
    (last.op = "variance" /\ rv.dist = UniformDict(1, len(rv))) =>
        /\ last.exc = "none"
        /\ 12 * (len(rv) * SumValWeight(last.ret.obj.dist) - SumValWeight(rv.dist) * SumValWeight(rv.dist))
               = (len(rv) * len(rv) - 1) * len(rv) * len(rv)
        /\ ~last.ret.val.neg
        /\ Near(last.ret.val, (len(rv) - 1) * (len(rv) + 1), 12)

C13_Witness ==
    /\ last.op = "variance"
    /\ rv.dist = UniformDict(1, 3)
    /\ last.ret.obj.dist = << <<1, 1>>, <<4, 1>>, <<9, 1>> >>
    /\ ~last.ret.val.zero
    /\ last.ret.val # Signed(FALSE, FloatQuot(2, 3))

\* C14: a call of randomable(func) has the outcome of rand_apply(func, ...)
\* on the same arguments: the same distribution, or the same failure.
C14_RandomableIsRandApply ==
    last.op = "lifted_call" =>
        /\ last.exc = rand_apply(last.arg.f, last.arg.mut, last.arg.args, last.arg.kwargs).exc
        /\ last.ret.obj = rand_apply(last.arg.f, last.arg.mut, last.arg.args, last.arg.kwargs).obj
        /\ last.ret.evals = rand_apply(last.arg.f, last.arg.mut, last.arg.args, last.arg.kwargs).evals

C14_Witness ==
    /\ last.op = "lifted_call"
    /\ last.exc = "none"
    /\ Len(last.arg.args) = 2
    /\ Len(last.arg.kwargs) = 1
    /\ last.arg.kwargs[1].isvar
    /\ Len(last.ret.obj.dist) >= 3

\* an argument that is a plain constant or a variable const(v)
IsConstant(a) == ~a.isvar \/ \E v \in Values : a.obj = const(v).obj

PointValue(a) == IF a.isvar THEN a.obj.dist[1][1] ELSE a.val

AllConstant ==
    /\ last.op = "rand_apply"
    /\ \A i \in 1..Len(last.arg.args) : IsConstant(last.arg.args[i])
    /\ \A i \in 1..Len(last.arg.kwargs) : IsConstant(last.arg.kwargs[i])

\* func on the one combination of constant arguments
PointResult ==
    FuncValue(last.arg.f,
              [i \in 1..Len(last.arg.args) |-> PointValue(last.arg.args[i])],
              [i \in 1..Len(last.arg.kwargs) |-> PointValue(last.arg.kwargs[i])])

\* C15: with only constants and variables const(v) as arguments, func is
\* evaluated once and the result has the one value func returns, with
\* probability 1; with no argument at all its weight is 1.
C15_ConstantsGiveOnePoint ==
    (AllConstant /\ PointResult.exc = "none") =>
        /\ last.exc = "none"
        /\ Len(last.ret.evals) = 1
        /\ len(last.ret.obj) = 1
        /\ iter(last.ret.obj) = <<PointResult.val>>
        /\ getitem(last.ret.obj, PointResult.val)[1] = getitem(last.ret.obj, PointResult.val)[2]
        /\ Len(Operands) = 0 =>
               /\ last.ret.evals = << << <<>>, <<>> >> >>
               /\ last.ret.obj.dist = << <<PointResult.val, 1>> >>

C15_Witness ==
    /\ AllConstant
    /\ last.exc = "none"
    /\ last.arg.f = "add"
    /\ Len(last.arg.args) = 2
    /\ last.arg.args[1].isvar
    /\ ~last.arg.args[2].isvar
    /\ Len(last.arg.kwargs) = 1
    /\ last.ret.obj.dist = << <<3, 1>> >>

\* the values of the intervals of the index that hold the draw xg
Holding(obj, xg) ==
    {obj.search[i].value : i \in {j \in 1..Len(obj.search) :
                                      /\ Grid * obj.search[j].lower <= xg
                                      /\ xg < Grid * obj.search[j].upper}}

\* C16: sample(n) returns n values, the i-th being the value choice returns
\* for the i-th draw (in the order of the draws), each a value of the
\* support; sample(0) is the empty sequence.
C16_SampleIsDrawsInOrder ==
    last.op = "sample" =>
        /\ last.exc = "none"
        /\ Len(last.ret) = Len(last.arg)
        /\ \A i \in 1..Len(last.arg) :
               /\ Holding(rv, last.arg[i]) = {last.ret[i]}
               /\ contains(rv, last.ret[i])
               /\ Lookup(rv.dist, last.ret[i]) > 0
        /\ Len(last.arg) = 0 => last.ret = <<>>

C16_Witness ==
    /\ last.op = "sample"
    /\ Len(last.ret) = 2
    /\ last.ret[1] > last.ret[2]
    /\ last.arg[1] > last.arg[2]

\* the total weight of an argument, 1 for a plain constant
Mass(a) == IF a.isvar THEN a.obj.weight_sum ELSE 1

\* C17: the weight_sum of the variable rand_apply returns is the product of
\* the weight_sums of its arguments (1 for a constant, 1 for no argument),
\* and it is the sum of the weights the variable stores.
C17_MassIsConserved ==
    (last.op = "rand_apply" /\ last.exc = "none") =>
        /\ last.ret.obj.weight_sum = ProdSeq([i \in 1..Len(Operands) |-> Mass(Operands[i])])
        /\ SumWeights(last.ret.obj.dist) = last.ret.obj.weight_sum

C17_Witness ==
    /\ last.op = "rand_apply"
    /\ last.exc = "none"
    /\ Len(last.arg.args) = 2
    /\ Len(last.arg.kwargs) = 1
    /\ last.ret.obj.weight_sum = 3 * 3 * (1 + MaxWeight)
    /\ Len(last.ret.evals) = 8
    /\ Len(last.ret.obj.dist) < 8
====
